---- MODULE Spec2Model ----
(***************************************************************************)
(* Model of web/hooks/use-bets.ts: the bet filter predicate, the three     *)
(* subscription hooks that merge snapshot and broadcast batches into a     *)
(* cached collection (useSubscribeNewBets, useSubscribeGlobalBets,         *)
(* useUnfilledBets) and the polling hook useRealtimeBetsPolling.           *)
(*                                                                         *)
(* One behaviour follows one mounted hook (variable kind) against a store  *)
(* of bets that grows and whose orders fill, cancel and expire while the   *)
(* clock advances.                                                         *)
(*                                                                         *)
(* Spec follows a hook whose caller never changes its arguments.           *)
(* SpecScopes lets the caller change contractId and includeRedemptions,    *)
(* SpecToggle lets it switch enabled, SpecFail lets getBets fail,          *)
(* SpecRecent follows useRecentBets and SpecFilter evaluates               *)
(* betShouldBeFiltered on its own.                                         *)
(***************************************************************************)
EXTENDS Integers, Sequences, FiniteSets, TLC

VARIABLES
    kind,               \* which hook is mounted
    contractId,         \* the contractId argument of the hook
    afterTimeParam,     \* params.afterTime / options.afterTime as passed by the caller (optional)
    includeRedemptions, \* params.includeRedemptions after defaulting
    order,              \* options.order of useRealtimeBetsPolling (optional)
    afterTime,          \* afterTime of the latest render (closure of addBets)
    now,                \* Date.now()
    db,                 \* the store's rows: db[i] is the current instance of bet i
    bets,               \* the persistent in-memory state cell of the hook
    inflight,           \* getBets calls issued and not yet resolved
    results,            \* rows held by usePersistentSupabasePolling
    fcase,              \* the (bet, options) pair given to betShouldBeFiltered
    limit,              \* the limit argument of useRecentBets (optional)
    enabled,            \* options.enabled of useUnfilledBets after defaulting
    store               \* the in-memory store behind usePersistentInMemoryState, by key

vars == <<kind, contractId, afterTimeParam, includeRedemptions, order, afterTime, now, db,
          bets, inflight, results, fcase, limit, enabled, store>>

----------------------------------------------------------------------------
(* Bounds *)

MaxBets == 2        \* bets ever created in the store
MaxTime == 3        \* the clock runs 1..MaxTime
MaxBatch == 2       \* bets per broadcast message
MaxFilterTime == 1  \* times 0..MaxFilterTime in the filter cases
MaxFetches == 2     \* getBets calls in flight when the caller changes the configuration
MaxLimit == 2       \* the limit argument of useRecentBets is in 1..MaxLimit

----------------------------------------------------------------------------
(* Optional values: undefined is {}, a present value v is {v} *)

None == {}
Some(v) == {v}
IsSet(o) == o # {}
Val(o) == CHOOSE v \in o : TRUE

\* JavaScript truthiness of an optional number, string, boolean
TruthyNum(o) == o # {} /\ o # {0}
TruthyStr(o) == o # {} /\ o # {""}
TruthyBool(o) == o = {TRUE}

Contracts == {"M1", "M2"}
Users == {"u1", "u2"}

Front(s) == SubSeq(s, 1, Len(s) - 1)
Range(s) == {s[i] : i \in DOMAIN s}
Ids(s) == {s[i].id : i \in DOMAIN s}

----------------------------------------------------------------------------
(* Bet, BetFilter *)

MkBet(id, c, t, red, exp) ==
    [id |-> id, contractId |-> c, userId |-> "u1", createdTime |-> t,
     isChallenge |-> FALSE, isAnte |-> FALSE, isRedemption |-> red,
     isFilled |-> FALSE, isCancelled |-> FALSE, expiresAt |-> exp]

NoFilter ==
    [contractId |-> None, userId |-> None, afterTime |-> None, beforeTime |-> None,
     filterChallenges |-> None, filterAntes |-> None, filterRedemptions |-> None,
     isOpenLimitOrder |-> None, order |-> None, limit |-> None]

\* betShouldBeFiltered(bet, options): options is None or Some(filter).
\* The result is the truthiness of the value the function returns.
betShouldBeFiltered(bet, options) ==
    IF options = None THEN FALSE
    ELSE LET o == Val(options) IN
        \/ (TruthyStr(o.contractId) /\ bet.contractId # Val(o.contractId))
        \/ (TruthyStr(o.userId) /\ bet.userId # Val(o.userId))
        \/ (TruthyNum(o.afterTime) /\ bet.createdTime <= Val(o.afterTime))
        \/ (TruthyNum(o.beforeTime) /\ bet.createdTime >= Val(o.beforeTime))
        \/ (TruthyBool(o.filterChallenges) /\ bet.isChallenge)
        \/ (TruthyBool(o.filterAntes) /\ bet.isAnte)
        \/ (TruthyBool(o.filterRedemptions) /\ bet.isRedemption)
        \/ (TruthyBool(o.isOpenLimitOrder) /\ (bet.isFilled \/ bet.isCancelled))

----------------------------------------------------------------------------
(* lodash: uniqBy(_, 'id'), sortBy(_, 'createdTime'), orderBy(_, 'createdTime', 'desc') *)

\* uniqBy that keeps every element
uniqByKeepAll(s) == s

RECURSIVE uniqBy(_)
uniqBy(s) ==
    IF s = <<>> THEN <<>>
    ELSE LET r == uniqBy(Front(s))
             x == s[Len(s)]
         IN IF x.id \in Ids(r) THEN r ELSE Append(r, x)

\* position after which x goes in the ascending sequence s: after every element
\* whose key is <= x's (stable)
InsertAsc(s, x) ==
    LET k == Cardinality({i \in DOMAIN s : s[i].createdTime <= x.createdTime})
    IN SubSeq(s, 1, k) \o <<x>> \o SubSeq(s, k + 1, Len(s))

InsertDesc(s, x) ==
    LET k == Cardinality({i \in DOMAIN s : s[i].createdTime >= x.createdTime})
    IN SubSeq(s, 1, k) \o <<x>> \o SubSeq(s, k + 1, Len(s))

\* a sort that is not stable: an element goes before the elements of equal key
InsertAscBeforeEqual(s, x) ==
    LET k == Cardinality({i \in DOMAIN s : s[i].createdTime < x.createdTime})
    IN SubSeq(s, 1, k) \o <<x>> \o SubSeq(s, k + 1, Len(s))

RECURSIVE sortByUnstable(_)
sortByUnstable(s) ==
    IF s = <<>> THEN <<>> ELSE InsertAscBeforeEqual(sortByUnstable(Front(s)), s[Len(s)])

RECURSIVE sortBy(_)
sortBy(s) == IF s = <<>> THEN <<>> ELSE InsertAsc(sortBy(Front(s)), s[Len(s)])

RECURSIVE orderByDesc(_)
orderByDesc(s) == IF s = <<>> THEN <<>> ELSE InsertDesc(orderByDesc(Front(s)), s[Len(s)])

----------------------------------------------------------------------------
(* The three addBets updaters.  currentBets and the result are the value of  *)
(* the state cell; the cell of useUnfilledBets may be undefined.             *)

Cell(v) == [set |-> TRUE, val |-> v]
Undefined == [set |-> FALSE, val |-> <<>>]
OrEmpty(cell) == IF cell.set THEN cell.val ELSE <<>>

\* the key under which hook k keeps its collection: `${contractId}-new-bets`,
\* 'global-new-bets', `unfilled-bets-${contractId}`, `recent-bets-${contractId}-${limit}`
Key(k, c, l) ==
    CASE k = "useSubscribeNewBets" -> [hook |-> k, contractId |-> c, limit |-> None]
      [] k = "useSubscribeGlobalBets" -> [hook |-> k, contractId |-> "", limit |-> None]
      [] k = "useUnfilledBets" -> [hook |-> k, contractId |-> c, limit |-> None]
      [] OTHER -> [hook |-> k, contractId |-> c, limit |-> l]

\* the first argument of usePersistentInMemoryState
InitialValue(k) == IF k \in {"useSubscribeNewBets", "useSubscribeGlobalBets"}
                   THEN Cell(<<>>) ELSE Undefined

\* the value a hook instance starts from under key: the stored one, else the initial one
Load(st, key, k) == IF key \in DOMAIN st THEN st[key].cell ELSE InitialValue(k)

\* the store after the scope of configuration cfg saved cell under key
Save(st, key, cell, cfg) ==
    [x \in DOMAIN st \cup {key} |-> IF x = key THEN [cell |-> cell, by |-> cfg] ELSE st[x]]

\* addBets whose time bound is not strict
useSubscribeNewBets_addBetsAtOrAfter(currentBets, newBets, aT, incl) ==
    LET uniqueBets == sortBy(uniqBy(currentBets \o newBets))
        Keep(b) == b.createdTime >= aT /\ (incl \/ ~b.isRedemption)
    IN SelectSeq(uniqueBets, Keep)

useSubscribeNewBets_addBets(currentBets, newBets, aT, incl) ==
    LET uniqueBets == sortBy(uniqBy(currentBets \o newBets))
        Keep(b) == b.createdTime > aT /\ (incl \/ ~b.isRedemption)
    IN SelectSeq(uniqueBets, Keep)

\* addBets that does not filter the merged collection
useSubscribeGlobalBets_addBetsUnfiltered(currentBets, newBets, aT, incl) ==
    sortBy(uniqBy(currentBets \o newBets))

useSubscribeGlobalBets_addBets(currentBets, newBets, aT, incl) ==
    LET uniqueBets == sortBy(uniqBy(currentBets \o newBets))
        Keep(b) == b.createdTime > aT /\ (incl \/ ~b.isRedemption)
    IN SelectSeq(uniqueBets, Keep)

\* addBets that does not look at expiresAt
useUnfilledBets_addBetsNoExpiry(cell, newBets, dateNow) ==
    LET Keep(bet) == ~bet.isFilled /\ ~bet.isCancelled
    IN SelectSeq(sortBy(uniqBy(newBets \o OrEmpty(cell))), Keep)

\* addBets that puts the current collection first, as the other two hooks do
useUnfilledBets_addBetsCurrentFirst(cell, newBets, dateNow) ==
    LET Keep(bet) == /\ ~bet.isFilled
                     /\ ~bet.isCancelled
                     /\ (~TruthyNum(bet.expiresAt) \/ Val(bet.expiresAt) > dateNow)
    IN SelectSeq(sortBy(uniqBy(OrEmpty(cell) \o newBets)), Keep)

useUnfilledBets_addBets(cell, newBets, dateNow) ==
    LET Keep(bet) == /\ ~bet.isFilled
                     /\ ~bet.isCancelled
                     /\ (~TruthyNum(bet.expiresAt) \/ Val(bet.expiresAt) > dateNow)
    IN SelectSeq(sortBy(uniqBy(newBets \o OrEmpty(cell))), Keep)

MergeKinds == {"useSubscribeNewBets", "useSubscribeGlobalBets", "useUnfilledBets"}
AppendOnlyKinds == {"useSubscribeNewBets", "useSubscribeGlobalBets"}
Kinds == MergeKinds \cup {"useRealtimeBetsPolling"}
\* every hook that reads the store of bets
Hooks == Kinds \cup {"useRecentBets"}

\* an update that is computed from the initial value instead of the current one
addBetsLosingCurrent(k, cell, batch, aT, incl, dateNow) ==
    CASE k = "useSubscribeNewBets" ->
            Cell(useSubscribeNewBets_addBets(<<>>, batch, aT, incl))
      [] k = "useSubscribeGlobalBets" ->
            Cell(useSubscribeGlobalBets_addBets(<<>>, batch, aT, incl))
      [] OTHER ->
            Cell(useUnfilledBets_addBets(Undefined, batch, dateNow))

\* setNewBets(updater) / setBets(updater) of hook k: the cell after the update
addBets(k, cell, batch, aT, incl, dateNow) ==
    CASE k = "useSubscribeNewBets" ->
            Cell(useSubscribeNewBets_addBets(cell.val, batch, aT, incl))
      [] k = "useSubscribeGlobalBets" ->
            Cell(useSubscribeGlobalBets_addBets(cell.val, batch, aT, incl))
      [] OTHER ->
            Cell(useUnfilledBets_addBets(cell, batch, dateNow))

----------------------------------------------------------------------------
(* The store: getBets and the queries of the polling hook *)

\* the filter vocabulary as the store applies it
matches(bet, f) ==
    ~ \/ (IsSet(f.contractId) /\ bet.contractId # Val(f.contractId))
      \/ (IsSet(f.userId) /\ bet.userId # Val(f.userId))
      \/ (IsSet(f.afterTime) /\ bet.createdTime <= Val(f.afterTime))
      \/ (IsSet(f.beforeTime) /\ bet.createdTime >= Val(f.beforeTime))
      \/ (f.filterChallenges = Some(TRUE) /\ bet.isChallenge)
      \/ (f.filterAntes = Some(TRUE) /\ bet.isAnte)
      \/ (f.filterRedemptions = Some(TRUE) /\ bet.isRedemption)
      \/ (f.isOpenLimitOrder = Some(TRUE) /\ (bet.isFilled \/ bet.isCancelled))

Min(a, b) == IF a < b THEN a ELSE b

getBets(rows, f) ==
    LET Keep(b) == matches(b, f)
        kept == SelectSeq(rows, Keep)
        ordered == IF f.order = Some("asc") THEN sortBy(kept) ELSE orderByDesc(kept)
    IN IF IsSet(f.limit) THEN SubSeq(ordered, 1, Min(Val(f.limit), Len(ordered)))
       ELSE ordered

\* the filter of the getBets call in the effect of hook k
EffectQuery(k, c, aT, incl) ==
    CASE k = "useSubscribeNewBets" ->
            [NoFilter EXCEPT !.contractId = Some(c), !.afterTime = Some(aT),
                             !.filterRedemptions = Some(~incl)]
      [] k = "useSubscribeGlobalBets" ->
            [NoFilter EXCEPT !.afterTime = Some(aT), !.filterRedemptions = Some(~incl)]
      [] OTHER ->
            [NoFilter EXCEPT !.contractId = Some(c), !.isOpenLimitOrder = Some(TRUE)]

\* Row<'contract_bets'> and convertBet
toRow(bet) == [id |-> bet.id, created_time |-> bet.createdTime, data |-> bet]
convertBet(row) == [row.data EXCEPT !.createdTime = row.created_time]
MapSeq(s, Op(_)) == [i \in DOMAIN s |-> Op(s[i])]

applyBetsFilter(rows, f) ==
    LET Keep(r) == matches(convertBet(r), f) IN SelectSeq(rows, Keep)

PollingOptions == [NoFilter EXCEPT !.contractId = Some(contractId),
                                   !.afterTime = afterTimeParam, !.order = order]

RowInsertAsc(s, x) ==
    LET k == Cardinality({i \in DOMAIN s : s[i].created_time <= x.created_time})
    IN SubSeq(s, 1, k) \o <<x>> \o SubSeq(s, k + 1, Len(s))

RowInsertDesc(s, x) ==
    LET k == Cardinality({i \in DOMAIN s : s[i].created_time >= x.created_time})
    IN SubSeq(s, 1, k) \o <<x>> \o SubSeq(s, k + 1, Len(s))

RECURSIVE RowOrder(_, _)
RowOrder(s, ascending) ==
    IF s = <<>> THEN <<>>
    ELSE IF ascending THEN RowInsertAsc(RowOrder(Front(s), ascending), s[Len(s)])
         ELSE RowInsertDesc(RowOrder(Front(s), ascending), s[Len(s)])

allRowsQ(options) ==
    applyBetsFilter(RowOrder(MapSeq(db, toRow), options.order = Some("asc")), options)

\* maxBy(rows, 'created_time')?.created_time
latestCreatedTime(rows) ==
    IF (~rows.set) \/ rows.val = <<>> THEN None
    ELSE LET s == rows.val
             m == CHOOSE i \in DOMAIN s : \A j \in DOMAIN s : s[j].created_time <= s[i].created_time
         IN Some(s[m].created_time)

\* a lower bound that stays at the afterTime of the options
LowerBoundFromAfterTime(options, rows) ==
    IF IsSet(options.afterTime) THEN Val(options.afterTime) ELSE 0

\* the lower bound of the delta query: latestCreatedTime ?? (afterTime ?? 0)
LowerBound(options, rows) ==
    IF IsSet(latestCreatedTime(rows)) THEN Val(latestCreatedTime(rows))
    ELSE IF IsSet(options.afterTime) THEN Val(options.afterTime) ELSE 0

newRowsOnlyQ(options, rows) ==
    LET rest == [options EXCEPT !.afterTime = None]
        Gt(r) == r.created_time > LowerBound(options, rows)
    IN applyBetsFilter(SelectSeq(MapSeq(db, toRow), Gt), rest)

\* the value useRealtimeBetsPolling returns
useRealtimeBetsPolling ==
    IF results.set THEN Cell(orderByDesc(MapSeq(results.val, convertBet))) ELSE Undefined

\* the collection the mounted hook returns
Returned == IF kind = "useRealtimeBetsPolling" THEN useRealtimeBetsPolling ELSE bets

----------------------------------------------------------------------------
(* Broadcast messages *)

Open(b) == [b EXCEPT !.isFilled = FALSE, !.isCancelled = FALSE]

\* every instance of every bet the topic of hook k has carried: a bet as it was
\* created and as it is now (delivery is at least once, unordered)
TopicInstances(k) ==
    LET onTopic == {i \in DOMAIN db : k = "useSubscribeGlobalBets" \/ db[i].contractId = contractId}
    IN {db[i] : i \in onTopic} \cup {Open(db[i]) : i \in onTopic}

Batches(S) ==
    UNION {{s \in [1..n -> S] : \A i, j \in 1..n : i # j => s[i].id # s[j].id}
           : n \in 0..MaxBatch}

----------------------------------------------------------------------------
(* Initial state: the hook has rendered once and its effect has run *)

NoCase == [done |-> FALSE, bet |-> MkBet(0, "M1", 0, FALSE, None), options |-> None,
           result |-> FALSE]

\* a getBets call issued by the effect of the render with these values
Request(c, aT, incl) ==
    [phase |-> "request", batch |-> <<>>, contractId |-> c, afterTime |-> aT,
     includeRedemptions |-> incl]

Init ==
    /\ kind \in Kinds
    /\ contractId = "M1"
    /\ afterTimeParam \in (IF kind \in {"useUnfilledBets", "useSubscribeGlobalBets"}
                           THEN {None} ELSE {None, Some(1)})
    /\ includeRedemptions \in (IF kind \in AppendOnlyKinds THEN BOOLEAN ELSE {FALSE})
    /\ order \in (IF kind = "useRealtimeBetsPolling"
                  THEN {None, Some("asc"), Some("desc")} ELSE {None})
    /\ now = 1
    /\ afterTime = (IF kind \in AppendOnlyKinds
                    THEN (IF IsSet(afterTimeParam) THEN Val(afterTimeParam) ELSE now)
                    ELSE 0)
    /\ db = <<>>
    /\ bets = InitialValue(kind)
    /\ inflight = (IF kind \in MergeKinds
                   THEN {Request(contractId, afterTime, includeRedemptions)} ELSE {})
    /\ results = Undefined
    /\ fcase = NoCase
    /\ limit = None
    /\ enabled = TRUE
    /\ store = <<>>

----------------------------------------------------------------------------
(* The store and the clock *)

Tick ==
    /\ kind \in Hooks
    /\ now < MaxTime
    /\ now' = now + 1
    /\ UNCHANGED <<kind, contractId, afterTimeParam, includeRedemptions, order,
                   limit, enabled, store, afterTime, db, bets, inflight, results, fcase>>

\* the kinds of bet the store receives while hook k is mounted: only the
\* attributes k reads vary (contract, redemption, expiry)
Variants(k, t) ==
    CASE k = "useSubscribeNewBets" ->
            {MkBet(0, "M1", t, FALSE, None), MkBet(0, "M1", t, TRUE, None),
             MkBet(0, "M2", t, FALSE, None)}
      [] k = "useSubscribeGlobalBets" ->
            {MkBet(0, "M1", t, FALSE, None), MkBet(0, "M2", t, TRUE, None)}
      [] k = "useUnfilledBets" ->
            {MkBet(0, "M1", t, FALSE, None), MkBet(0, "M1", t, FALSE, Some(t + 1))}
      [] OTHER ->
            {MkBet(0, "M1", t, FALSE, None), MkBet(0, "M2", t, FALSE, None)}

\* a bet is created now
CreateBet ==
    /\ kind \in Hooks
    /\ Len(db) < MaxBets
    /\ \E b \in Variants(kind, now) : db' = Append(db, [b EXCEPT !.id = Len(db) + 1])
    /\ UNCHANGED <<kind, contractId, afterTimeParam, includeRedemptions, order,
                   limit, enabled, store, afterTime, now, bets, inflight, results, fcase>>

IsOpen(b) == ~b.isFilled /\ ~b.isCancelled

FillBet ==
    /\ kind \in MergeKinds
    /\ \E i \in DOMAIN db :
        /\ IsOpen(db[i])
        /\ db' = [db EXCEPT ![i].isFilled = TRUE]
    /\ UNCHANGED <<kind, contractId, afterTimeParam, includeRedemptions, order,
                   limit, enabled, store, afterTime, now, bets, inflight, results, fcase>>

CancelBet ==
    /\ kind = "useUnfilledBets"
    /\ \E i \in DOMAIN db :
        /\ IsOpen(db[i])
        /\ db' = [db EXCEPT ![i].isCancelled = TRUE]
    /\ UNCHANGED <<kind, contractId, afterTimeParam, includeRedemptions, order,
                   limit, enabled, store, afterTime, now, bets, inflight, results, fcase>>

----------------------------------------------------------------------------
(* The merging hooks *)

\* useSubscribeNewBets renders again: afterTime = Date.now() when the caller gave
\* none, and the effect runs because its dependency afterTime changed
Rerender ==
    /\ kind = "useSubscribeNewBets"
    /\ afterTimeParam = None
    /\ now # afterTime
    /\ inflight = {}
    /\ afterTime' = now
    /\ inflight' = inflight \cup {Request(contractId, now, includeRedemptions)}
    /\ UNCHANGED <<kind, contractId, afterTimeParam, includeRedemptions, order,
                   limit, enabled, store, now, db, bets, results, fcase>>

\* the store answers a getBets call
FetchRespond ==
    /\ kind \in MergeKinds
    /\ \E r \in inflight :
        /\ r.phase = "request"
        /\ inflight' = (inflight \ {r}) \cup
             {[r EXCEPT !.phase = "response",
                        !.batch = getBets(db, EffectQuery(kind, r.contractId, r.afterTime,
                                                          r.includeRedemptions))]}
    /\ UNCHANGED <<kind, contractId, afterTimeParam, includeRedemptions, order,
                   limit, enabled, store, afterTime, now, db, bets, results, fcase>>

\* what hook `kind` makes of its cell when batch d.batch reaches the addBets of
\* the render that closed over d.afterTime and d.includeRedemptions
Merged(d) == addBets(kind, bets, d.batch, d.afterTime, d.includeRedemptions, now)

\* a batch on its way to the addBets of one render
Delivery(batch, c, aT, incl) ==
    [batch |-> batch, contractId |-> c, afterTime |-> aT, includeRedemptions |-> incl]

\* the getBets results that have arrived and wait for their then-callback
Responses == {Delivery(r.batch, r.contractId, r.afterTime, r.includeRedemptions) :
                r \in {x \in inflight : x.phase = "response"}}

\* the messages the subscription can deliver now, to the addBets of the latest render
Messages ==
    IF enabled
    THEN {Delivery(b, contractId, afterTime, includeRedemptions) :
            b \in Batches(TopicInstances(kind))}
    ELSE {}

\* the configuration the caller gave to the latest render
Config == [contractId |-> contractId, afterTime |-> afterTimeParam,
           includeRedemptions |-> includeRedemptions]

\* the state setter: the updater runs on the current value of the cell and the
\* result is saved under the key of the latest render
SetState(d) == Save(store, Key(kind, contractId, limit), Merged(d), Config)

Deliveries == IF kind \in MergeKinds THEN Responses \cup Messages ELSE {}

\* getBets(...).then(addBets), with the addBets of the render that issued the call
FetchResolve ==
    /\ kind \in MergeKinds
    /\ \E r \in inflight :
        /\ r.phase = "response"
        /\ LET d == Delivery(r.batch, r.contractId, r.afterTime, r.includeRedemptions)
           IN /\ bets' = Merged(d)
              /\ store' = SetState(d)
        /\ inflight' = inflight \ {r}
    /\ UNCHANGED <<kind, contractId, afterTimeParam, includeRedemptions, order,
                   limit, enabled, afterTime, now, db, results, fcase>>

\* onBroadcast: a message of the hook's topic is delivered
Broadcast ==
    /\ kind \in MergeKinds
    /\ \E d \in Messages : bets' = Merged(d) /\ store' = SetState(d)
    /\ UNCHANGED <<kind, contractId, afterTimeParam, includeRedemptions, order,
                   limit, enabled, afterTime, now, db, inflight, results, fcase>>

----------------------------------------------------------------------------
(* useRealtimeBetsPolling *)

PollInitial ==
    /\ kind = "useRealtimeBetsPolling"
    /\ ~results.set
    /\ results' = Cell(allRowsQ(PollingOptions))
    /\ UNCHANGED <<kind, contractId, afterTimeParam, includeRedemptions, order,
                   limit, enabled, store, afterTime, now, db, bets, inflight, fcase>>

PollTick ==
    /\ kind = "useRealtimeBetsPolling"
    /\ results.set
    /\ results' = Cell(results.val \o newRowsOnlyQ(PollingOptions, results))
    /\ UNCHANGED <<kind, contractId, afterTimeParam, includeRedemptions, order,
                   limit, enabled, store, afterTime, now, db, bets, inflight, fcase>>

Next ==
    \/ Tick
    \/ CreateBet
    \/ FillBet
    \/ CancelBet
    \/ Rerender
    \/ FetchRespond
    \/ FetchResolve
    \/ Broadcast
    \/ PollInitial
    \/ PollTick

Spec == Init /\ [][Next]_vars

----------------------------------------------------------------------------
(* The caller changes the arguments of a mounted hook *)

ScopeKinds == {"useSubscribeNewBets", "useUnfilledBets"}

InitScopes ==
    /\ kind \in ScopeKinds
    /\ contractId = "M1"
    /\ afterTimeParam = (IF kind = "useSubscribeNewBets" THEN Some(0) ELSE None)
    /\ includeRedemptions \in (IF kind = "useSubscribeNewBets" THEN BOOLEAN ELSE {FALSE})
    /\ order = None
    /\ now = 1
    /\ afterTime = 0
    /\ db = <<>>
    /\ bets = InitialValue(kind)
    /\ inflight = {Request(contractId, afterTime, includeRedemptions)}
    /\ results = Undefined
    /\ fcase = NoCase
    /\ limit = None
    /\ enabled = TRUE
    /\ store = <<>>

\* a render with another contractId or includeRedemptions: when the key changes
\* the cell is loaded from the store, and the effect runs again when its
\* dependency contractId changed (includeRedemptions is no dependency)
Reconfigure ==
    /\ kind \in ScopeKinds
    /\ \E c \in Contracts :
       \E incl \in (IF kind = "useSubscribeNewBets" THEN BOOLEAN ELSE {includeRedemptions}) :
        /\ <<c, incl>> # <<contractId, includeRedemptions>>
        /\ c # contractId => Cardinality(inflight) < MaxFetches
        /\ contractId' = c
        /\ includeRedemptions' = incl
        /\ bets' = (IF c # contractId THEN Load(store, Key(kind, c, limit), kind) ELSE bets)
        /\ inflight' = (IF c # contractId
                        THEN inflight \cup {Request(c, afterTime, incl)} ELSE inflight)
    /\ UNCHANGED <<kind, afterTimeParam, order, limit, enabled, store, afterTime, now, db,
                   results, fcase>>

NextScopes ==
    \/ CreateBet
    \/ Reconfigure
    \/ FetchRespond
    \/ FetchResolve
    \/ Broadcast

SpecScopes == InitScopes /\ [][NextScopes]_vars

----------------------------------------------------------------------------
(* getBets can fail *)

FailKinds == {"useSubscribeGlobalBets", "useUnfilledBets"}

InitFail == Init /\ kind \in FailKinds

\* getBets rejects: the then-callback never runs and the rejection is not handled
FetchFail ==
    /\ kind \in FailKinds
    /\ \E r \in inflight :
        /\ r.phase = "request"
        /\ inflight' = (inflight \ {r}) \cup {[r EXCEPT !.phase = "failed"]}
    /\ UNCHANGED <<kind, contractId, afterTimeParam, includeRedemptions, order,
                   limit, enabled, store, afterTime, now, db, bets, results, fcase>>

NextFail ==
    \/ CreateBet
    \/ FetchRespond
    \/ FetchFail
    \/ FetchResolve
    \/ Broadcast

\* the store answers every call, with a result or an error, and a settled promise
\* runs its callback; nothing is assumed of the bets created or the messages sent
SpecFail ==
    /\ InitFail
    /\ [][NextFail]_vars
    /\ WF_vars(FetchRespond \/ FetchFail)
    /\ WF_vars(FetchResolve)

----------------------------------------------------------------------------
(* The caller switches options.enabled of useUnfilledBets *)

InitToggle == Init /\ kind = "useUnfilledBets"

\* a render with the other value of enabled: the effect runs again because its
\* dependency enabled changed, and calls getBets if enabled
SetEnabled ==
    /\ kind = "useUnfilledBets"
    /\ enabled' = ~enabled
    /\ inflight' = (IF enabled' THEN inflight \cup {Request(contractId, afterTime,
                                                            includeRedemptions)}
                    ELSE inflight)
    /\ UNCHANGED <<kind, contractId, afterTimeParam, includeRedemptions, order,
                   limit, store, afterTime, now, db, bets, results, fcase>>

NextToggle ==
    \/ Tick
    \/ CreateBet
    \/ FillBet
    \/ SetEnabled
    \/ FetchRespond
    \/ FetchResolve
    \/ Broadcast

SpecToggle == InitToggle /\ [][NextToggle]_vars

----------------------------------------------------------------------------
(* useRecentBets *)

\* a "reverse" that returns the array as it is
ReverseNot(s) == s

\* Array.prototype.reverse
Reverse(s) == [i \in DOMAIN s |-> s[Len(s) + 1 - i]]

\* the filter of the getBets call of useRecentBets
RecentQuery(c, l) == [NoFilter EXCEPT !.contractId = Some(c), !.limit = l,
                                      !.order = Some("desc")]

InitRecent ==
    /\ kind = "useRecentBets"
    /\ contractId = "M1"
    /\ afterTimeParam = None
    /\ includeRedemptions = FALSE
    /\ order = None
    /\ now = 1
    /\ afterTime = 0
    /\ db = <<>>
    /\ limit \in {Some(l) : l \in 1..MaxLimit}
    /\ store = <<>>
    /\ bets = Load(store, Key(kind, contractId, limit), kind)
    /\ inflight = {Request(contractId, afterTime, includeRedemptions)}
    /\ results = Undefined
    /\ fcase = NoCase
    /\ enabled = TRUE

\* the store answers the getBets call of useRecentBets
RecentRespond ==
    /\ kind = "useRecentBets"
    /\ \E r \in inflight :
        /\ r.phase = "request"
        /\ inflight' = (inflight \ {r}) \cup
             {[r EXCEPT !.phase = "response",
                        !.batch = getBets(db, RecentQuery(r.contractId, limit))]}
    /\ UNCHANGED <<kind, contractId, afterTimeParam, includeRedemptions, order,
                   limit, enabled, store, afterTime, now, db, bets, results, fcase>>

\* .then((bets) => setBets(bets.reverse()))
RecentResolve ==
    /\ kind = "useRecentBets"
    /\ \E r \in inflight :
        /\ r.phase = "response"
        /\ bets' = Cell(Reverse(r.batch))
        /\ store' = Save(store, Key(kind, contractId, limit), bets', Config)
        /\ inflight' = inflight \ {r}
    /\ UNCHANGED <<kind, contractId, afterTimeParam, includeRedemptions, order,
                   limit, enabled, afterTime, now, db, results, fcase>>

NextRecent ==
    \/ Tick
    \/ CreateBet
    \/ RecentRespond
    \/ RecentResolve

SpecRecent == InitRecent /\ [][NextRecent]_vars

----------------------------------------------------------------------------
(* betShouldBeFiltered on its own: every filter against every bet *)

OptTimes == {None} \cup {Some(t) : t \in 0..MaxFilterTime}

FilterOptions ==
    {None} \cup
    {Some([NoFilter EXCEPT !.contractId = c, !.userId = u, !.afterTime = a,
                           !.beforeTime = b, !.filterChallenges = fc, !.filterAntes = fa,
                           !.filterRedemptions = fr, !.isOpenLimitOrder = ol]) :
        c \in {None, Some("M1")}, u \in {None, Some("u1")},
        a \in OptTimes, b \in OptTimes,
        fc \in {None, Some(TRUE)}, fa \in {None, Some(TRUE)},
        fr \in {None, Some(FALSE), Some(TRUE)}, ol \in {None, Some(FALSE), Some(TRUE)}}

FilterBets ==
    [id : {1}, contractId : Contracts, userId : Users, createdTime : 0..MaxFilterTime,
     isChallenge : BOOLEAN, isAnte : BOOLEAN, isRedemption : BOOLEAN,
     isFilled : BOOLEAN, isCancelled : BOOLEAN, expiresAt : {None}]

InitFilter ==
    /\ kind = "betShouldBeFiltered"
    /\ contractId = "M1"
    /\ afterTimeParam = None
    /\ includeRedemptions = FALSE
    /\ order = None
    /\ now = 1
    /\ afterTime = 0
    /\ db = <<>>
    /\ bets = Undefined
    /\ inflight = {}
    /\ results = Undefined
    /\ fcase \in {[NoCase EXCEPT !.options = o] : o \in FilterOptions}
    /\ limit = None
    /\ enabled = TRUE
    /\ store = <<>>

Evaluate ==
    /\ kind = "betShouldBeFiltered"
    /\ ~fcase.done
    /\ \E bet \in FilterBets :
        fcase' = [done |-> TRUE, bet |-> bet, options |-> fcase.options,
                  result |-> betShouldBeFiltered(bet, fcase.options)]
    /\ UNCHANGED <<kind, contractId, afterTimeParam, includeRedemptions, order,
                   limit, enabled, store, afterTime, now, db, bets, inflight, results>>

NextFilter == Evaluate

SpecFilter == InitFilter /\ [][NextFilter]_vars

----------------------------------------------------------------------------
(* Properties *)

Distinct(s) == \A i, j \in DOMAIN s : i # j => s[i].id # s[j].id
SortedAsc(s) == \A i \in 1..(Len(s) - 1) : s[i].createdTime <= s[i + 1].createdTime
SortedDesc(s) == \A i \in 1..(Len(s) - 1) : s[i].createdTime >= s[i + 1].createdTime
Closed(b) == b.isFilled \/ b.isCancelled
SameFlags(a, b) == a.isFilled = b.isFilled /\ a.isCancelled = b.isCancelled

\* addBets of the mounted hook applied to an arbitrary cell
Then(cell, d) == addBets(kind, cell, d.batch, d.afterTime, d.includeRedemptions, now)

\* C1: in every reachable state of the three merging hooks the ids of the bets in
\* the collection are pairwise distinct, whatever snapshots and messages arrived,
\* in whatever order and however often.
C1_NoDuplicates == kind \in MergeKinds => Distinct(bets.val)

\* C1 witness: messages have put two bets in the collection while the snapshot
\* that covers the same two bets is still waiting to be merged.
C1_Witness ==
    /\ kind \in MergeKinds
    /\ Len(bets.val) = 2
    /\ \E d \in Responses : Ids(d.batch) = Ids(bets.val)

\* the eight exclusion conditions, an option counting as set whenever it is present
ExclusionHolds(b, o) ==
    \/ (IsSet(o.contractId) /\ b.contractId # Val(o.contractId))
    \/ (IsSet(o.userId) /\ b.userId # Val(o.userId))
    \/ (IsSet(o.afterTime) /\ b.createdTime <= Val(o.afterTime))
    \/ (IsSet(o.beforeTime) /\ b.createdTime >= Val(o.beforeTime))
    \/ (o.filterChallenges = Some(TRUE) /\ b.isChallenge)
    \/ (o.filterAntes = Some(TRUE) /\ b.isAnte)
    \/ (o.filterRedemptions = Some(TRUE) /\ b.isRedemption)
    \/ (o.isOpenLimitOrder = Some(TRUE) /\ (b.isFilled \/ b.isCancelled))

\* C2: for every bet and every filter, time bounds of 0 included, the bet is
\* filtered (does not match) exactly when one of the eight exclusion conditions
\* holds; with no filter object every bet matches.
C2_FilterIffExclusion ==
    fcase.done =>
        (fcase.result <=> (IsSet(fcase.options) /\ ExclusionHolds(fcase.bet, Val(fcase.options))))

\* C3: in useUnfilledBets, whenever the current time is past a bet's expiresAt
\* the bet is not in the collection, also when nothing arrived since it expired.
C3_ExpiredAbsent ==
    kind = "useUnfilledBets" =>
        \A i \in DOMAIN bets.val :
            ~(IsSet(bets.val[i].expiresAt) /\ Val(bets.val[i].expiresAt) < now)

\* C3 as amended: every merge of useUnfilledBets, whatever its batch, leaves in the
\* collection only bets with no expiresAt (undefined or 0) or with expiresAt after
\* the time of the merge; a bet that expired while in the collection is removed
\* by the next merge, not before.
C3_ExpiredDroppedByMerge ==
    kind = "useUnfilledBets" =>
        \A d \in Deliveries : \A i \in DOMAIN Merged(d).val :
            LET e == Merged(d).val[i].expiresAt
            IN (IsSet(e) /\ Val(e) # 0) => Val(e) > now

\* C3 witness: a bet of the collection has expired, and the merge of a batch that
\* does not contain it removes it.
C3_Witness ==
    /\ kind = "useUnfilledBets"
    /\ \E d \in Deliveries : \E j \in DOMAIN bets.val :
        /\ IsSet(bets.val[j].expiresAt)
        /\ Val(bets.val[j].expiresAt) <= now
        /\ bets.val[j].id \notin Ids(d.batch)
        /\ bets.val[j].id \notin Ids(Merged(d).val)

\* C4: in useUnfilledBets, when a bet is in the collection and a batch arrives
\* that carries an instance of it with isFilled or isCancelled true, the
\* collection after that merge does not contain the bet.
C4_ClosedInstanceRemoves ==
    kind = "useUnfilledBets" =>
        \A d \in Deliveries : \A i \in DOMAIN d.batch :
            (d.batch[i].id \in Ids(bets.val) /\ Closed(d.batch[i]))
                => d.batch[i].id \notin Ids(Merged(d).val)

\* C4 witness: an open order is in the collection and a batch carrying its filled
\* or cancelled instance is there to be merged; the merge leaves it out.
C4_Witness ==
    /\ kind = "useUnfilledBets"
    /\ \E d \in Deliveries : \E i \in DOMAIN d.batch :
        /\ d.batch[i].id \in Ids(bets.val)
        /\ Closed(d.batch[i])
        /\ d.batch[i].id \notin Ids(Merged(d).val)

\* C5: in every merging hook, when a batch carries an instance of a bet that is in
\* the collection with other isFilled/isCancelled flags, the entry of that bet
\* after the merge, if there is one, is the instance of the batch.
C5_ReplaceOnDuplicate ==
    kind \in MergeKinds =>
        \A d \in Deliveries : \A i \in DOMAIN d.batch : \A j \in DOMAIN bets.val :
            (bets.val[j].id = d.batch[i].id /\ ~SameFlags(bets.val[j], d.batch[i]))
                => \A e \in Range(Merged(d).val) : e.id = d.batch[i].id => e = d.batch[i]

\* C6: in the append-only hooks a bet that is in the collection is still in it
\* after the merge of any batch that does not contain it (createdTime and
\* isRedemption of a bet never change, so the bet itself cannot newly fail the
\* freshness rule).
C6_MonotonicVisibility ==
    kind \in AppendOnlyKinds =>
        \A d \in Deliveries : \A j \in DOMAIN bets.val :
            bets.val[j].id \notin Ids(d.batch) => bets.val[j].id \in Ids(Merged(d).val)

\* the scenario of C7: bets at 50, 150, 200 of M1 and at 160 of M2
ScenarioStore ==
    <<MkBet(1, "M1", 50, FALSE, None), MkBet(2, "M1", 150, FALSE, None),
      MkBet(3, "M1", 200, FALSE, None), MkBet(4, "M2", 160, FALSE, None)>>

ScenarioSnapshot ==
    getBets(ScenarioStore, EffectQuery("useSubscribeNewBets", "M1", 100, FALSE))

ScenarioMessage == <<ScenarioStore[3], ScenarioStore[1], ScenarioStore[2]>>

ScenarioExpected == <<ScenarioStore[2], ScenarioStore[3]>>

C8_Ordered ==
    /\ kind \in MergeKinds => SortedAsc(bets.val)
    /\ (kind = "useRealtimeBetsPolling" /\ Returned.set) =>
          IF order = Some("asc") THEN SortedAsc(Returned.val) ELSE SortedDesc(Returned.val)

\* C9: at a fixed time, merging the same batch a second time right after the first
\* leaves the collection exactly as the first merge left it.
C9_Idempotent ==
    kind \in MergeKinds => \A d \in Deliveries : Then(Merged(d), d) = Merged(d)

\* C9 witness: a merge that changes the collection and leaves two bets of equal
\* createdTime in it.
C9_Witness ==
    /\ kind \in MergeKinds
    /\ \E d \in Deliveries :
        /\ Merged(d) # bets
        /\ Len(Merged(d).val) = 2
        /\ Merged(d).val[1].createdTime = Merged(d).val[2].createdTime

\* C10: for a snapshot result A and a message B that are both there to be merged,
\* merging A then B gives the same bets, with the same flags, as merging B then A
\* (the claim asks for the same sequence as well; the elements already differ).
C10_ArrivalOrderIndependent ==
    kind \in MergeKinds =>
        \A a \in Responses : \A b \in Messages :
            Range(Then(Then(bets, a), b).val) = Range(Then(Then(bets, b), a).val)

\* the rules of the scope that delivery d belongs to, at the current time
Passes(x, d) ==
    IF kind \in AppendOnlyKinds
    THEN x.createdTime > d.afterTime /\ (d.includeRedemptions \/ ~x.isRedemption)
    ELSE ~Closed(x) /\ (IsSet(x.expiresAt) => Val(x.expiresAt) > now)

\* every instance of bet id that the collection or one of the batches carries
Instances(id, a, b) ==
    {x \in Range(bets.val) \cup Range(a.batch) \cup Range(b.batch) : x.id = id}

\* C11: when two deliveries (snapshot results, messages) are merged one after the
\* other, in either order, the second merge works on the result of the first:
\* every bet of the collection or of either batch whose instances all pass the
\* scope's rules is in the collection after both merges.
C11_NoLostUpdate ==
    kind \in MergeKinds =>
        \A a \in Deliveries : \A b \in Deliveries :
            \A id \in Ids(bets.val) \cup Ids(a.batch) \cup Ids(b.batch) :
                (\A x \in Instances(id, a, b) : Passes(x, a) /\ Passes(x, b))
                    => id \in Ids(Then(Then(bets, a), b).val)

\* C11 witness: a snapshot result and a message carry different bets, both waiting
\* for an empty collection; after the two merges both bets are in it.
C11_Witness ==
    /\ kind \in MergeKinds
    /\ bets.val = <<>>
    /\ \E a \in Responses : \E b \in Messages :
        /\ Len(a.batch) = 1
        /\ Len(b.batch) = 1
        /\ a.batch[1].id # b.batch[1].id
        /\ Ids(Then(Then(bets, a), b).val) = Ids(a.batch) \cup Ids(b.batch)
        /\ Ids(Then(Then(bets, b), a).val) = Ids(a.batch) \cup Ids(b.batch)

\* C12: when the caller changed contractId or includeRedemptions while a getBets
\* call was in flight, the arrival of that call's result changes no collection:
\* neither the cell of the hook nor the value the store holds under any key.
C12_StaleResultDiscarded ==
    [][\A r \in inflight :
          (/\ r.phase = "response"
           /\ r \notin inflight'
           /\ <<r.contractId, r.includeRedemptions>> # <<contractId, includeRedemptions>>)
              => /\ bets' = bets
                 /\ \A key \in DOMAIN store' :
                        Load(store', key, kind) = Load(store, key, kind)]_vars

\* C13: the cell a scope reads and writes has been written only by a scope of the
\* same configuration (contract id, afterTime, includeRedemptions): what the
\* scope observes from the store was never merged for another scope.
C13_ScopeIsolation ==
    LET key == Key(kind, contractId, limit)
    IN (kind \in ScopeKinds /\ key \in DOMAIN store) => store[key].by = Config

Failed == \E r \in inflight : r.phase = "failed"
Requested == \E r \in inflight : r.phase = "request"

\* C14: a getBets call that fails leaves the collection as it was, and once the
\* call of a scope has failed another call is issued later, with no change of
\* the configuration.
C14_FailureRecovery ==
    /\ [][(Failed' /\ ~Failed) => (bets' = bets /\ store' = store)]_vars
    /\ (Failed ~> Requested)

\* the lower bound of the delta query the polling hook would send now
Mark == LowerBound(PollingOptions, results)

\* C15: the delta query of useRealtimeBetsPolling asks for rows created strictly
\* after the greatest created_time among the known rows, and after the afterTime
\* of the options (or 0) only while no row is known; from one state to the next
\* the lower bound never decreases, and a response without rows leaves it as it was.
C15_LowWaterMark ==
    /\ [](kind = "useRealtimeBetsPolling" =>
            /\ \A i \in DOMAIN results.val : results.val[i].created_time <= Mark
            /\ results.val # <<>> => \E i \in DOMAIN results.val :
                                        results.val[i].created_time = Mark
            /\ results.val = <<>> =>
                  Mark = (IF IsSet(afterTimeParam) THEN Val(afterTimeParam) ELSE 0)
            /\ \A i \in DOMAIN newRowsOnlyQ(PollingOptions, results) :
                  newRowsOnlyQ(PollingOptions, results)[i].created_time > Mark)
    /\ [][kind = "useRealtimeBetsPolling" =>
            /\ Mark' >= Mark
            /\ results'.val = results.val => Mark' = Mark]_vars

\* C15 witness: rows are known, the lower bound has moved past the afterTime of
\* the options, and the store holds a row the next delta query returns.
C15_Witness ==
    /\ kind = "useRealtimeBetsPolling"
    /\ IsSet(afterTimeParam)
    /\ results.val # <<>>
    /\ Mark > Val(afterTimeParam)
    /\ newRowsOnlyQ(PollingOptions, results) # <<>>

\* C16: while enabled is false no getBets call is issued and no step changes the
\* collection of useUnfilledBets, whether a message or anything else arrives;
\* the step that sets enabled back to true issues the getBets call.
C16_DisabledIsInert ==
    [][kind = "useUnfilledBets" =>
          /\ (~enabled /\ ~enabled') =>
                /\ bets' = bets
                /\ \A r \in inflight' : r.phase = "request" => r \in inflight
          /\ (~enabled /\ enabled') => Requested']_vars

\* C17: a merging hook whose caller never changes its arguments issues the one
\* getBets call of its first render and no other: no later step, and no render
\* that follows the arrival of the result, puts a new call in flight.
C17_OneSnapshot ==
    [][(kind \in MergeKinds) =>
          (\A r \in inflight' : r.phase = "request" => r \in inflight)]_vars

\* C18: in useUnfilledBets, when the merge of a batch removes a bet of the
\* collection because the batch carries its filled or cancelled instance, the
\* merge of any batch that arrives after it (a snapshot read before the fill, a
\* message delivered again) does not bring the bet back.
C18_NoResurrection ==
    kind = "useUnfilledBets" =>
        \A a \in Deliveries : \A i \in DOMAIN a.batch :
            (a.batch[i].id \in Ids(bets.val) /\ Closed(a.batch[i]))
                => \A b \in Deliveries : a.batch[i].id \notin Ids(Then(Merged(a), b).val)

\* C19: the merge of an empty batch returns the bets of the collection in the
\* same sequence, without exactly those that fail the rules at the time of the
\* merge: filled, cancelled or expired in useUnfilledBets; created at or before
\* afterTime, or a redemption when redemptions are excluded, in the other two.
C19_EmptyBatchMerge ==
    kind \in MergeKinds =>
        \A d \in Deliveries :
            d.batch = <<>> =>
                LET Keep(x) == Passes(x, d)
                IN Merged(d).val = SelectSeq(bets.val, Keep)

\* C19 witness: an empty batch is there to be merged into a collection of two
\* bets, and the merge removes one of them and keeps the other.
C19_Witness ==
    /\ kind \in MergeKinds
    /\ Len(bets.val) = 2
    /\ \E d \in Deliveries :
        /\ d.batch = <<>>
        /\ Len(Merged(d).val) = 1

\* the bets of contract c in the store
OfContract(c) == {x \in Range(db) : x.contractId = c}

\* C20: useRecentBets(contractId, limit) returns undefined until its getBets call
\* has resolved; the result the store returns holds the limit bets of the contract
\* with the greatest createdTime (all of them when there are fewer), and the
\* stored collection holds exactly the bets of that result, at most limit, all of
\* the contract, in ascending order of createdTime.
C20_RecentBets ==
    /\ [](kind = "useRecentBets" =>
            /\ bets.set <=> inflight = {}
            /\ Len(bets.val) <= Val(limit)
            /\ \A i \in DOMAIN bets.val : bets.val[i].contractId = contractId
            /\ SortedAsc(bets.val))
    /\ [][(kind = "useRecentBets") =>
            \A r \in inflight' :
                (r.phase = "response" /\ r \notin inflight) =>
                    /\ Range(r.batch) \subseteq OfContract(contractId)
                    /\ Distinct(r.batch)
                    /\ Len(r.batch) = Min(Val(limit), Cardinality(OfContract(contractId)))
                    /\ \A x \in OfContract(contractId) \ Range(r.batch) :
                          \A y \in Range(r.batch) : x.createdTime <= y.createdTime]_vars
    /\ [][(kind = "useRecentBets") =>
            \A r \in inflight :
                (r.phase = "response" /\ r \notin inflight') =>
                    /\ Range(bets'.val) = Range(r.batch)
                    /\ Len(bets'.val) = Len(r.batch)]_vars

\* C20 witness: the fetch has resolved with two bets created at different times
\* and both are in the stored collection.
C20_Witness ==
    /\ kind = "useRecentBets"
    /\ bets.set
    /\ Len(bets.val) = 2
    /\ bets.val[1].createdTime # bets.val[2].createdTime

====
